---- MODULE Spec2Model ----
(***************************************************************************)
(* Authentication and session security of the network-security console:   *)
(* password login, TOTP step-up, signed expiring bearer tokens with a      *)
(* Redis blocklist, and the per-endpoint rate limiter.                     *)
(*                                                                         *)
(* Time is counted in ticks, TicksPerSecond of them to a second, because   *)
(* the code mixes whole-second arithmetic (the exp claim, the blocklist    *)
(* TTL) with the store's own sub-second clock (the moment a key expires).  *)
(* The lifetimes of the code (30 minutes, 5 minutes, 60 seconds, 30        *)
(* seconds) are scaled down to a few seconds; only their order and the     *)
(* second boundaries matter to the properties below.                       *)
(***************************************************************************)
EXTENDS Integers, Sequences, FiniteSets, TLC

---------------------------------------------------------------------------
(* Bounds of the model *)

TicksPerSecond == 2
\* the clock stops at this tick
MaxNow == 6
\* the clock of the rate-limit specification stops at this tick
MaxRateNow == 3
\* tokens issued in one behaviour
MaxTokens == 2
\* ACCESS_TOKEN_EXPIRE_MINUTES (30 minutes), scaled, in seconds
AccessTokenExpireSeconds == 2
\* timedelta(minutes=5) of the 2fa_required token, scaled, in seconds
TwoFaTokenExpireSeconds == 1
\* RateLimiter(seconds=60), scaled, in seconds
RateLimitSeconds == 1
\* the TOTP time step (30 seconds), scaled, in seconds
TotpStepSeconds == 2
\* the clock of the time-zone specification stops at this tick
MaxZoneNow == 6
\* the distance of a local time zone from UTC (an hour), scaled, in seconds
UtcOffsetSeconds == 1
\* the clock of the specification of the workers stops at this tick
MaxWorkNow == 4
\* tokens issued in one behaviour of the workers
MaxWorkTokens == 1
\* the clock of the specification of arbitrary signed tokens stops at this tick
MaxGivenNow == 3
\* the clock of the specification with account management stops at this tick
MaxAccountsNow == 3
\* the clock of the specification of the repeated step-up stops at this tick
MaxStepUpNow == 4
\* tokens issued in one behaviour of the repeated step-up
MaxStepUpTokens == 3
\* the clock of the specification of the drifting authenticator stops at
\* this tick
MaxTotpNow == 5
\* the clock of the specification with changing principals stops at this
\* tick
MaxPrincipalsNow == 2
\* the clock of the specification of the administrator-only operations
\* stops at this tick
MaxAdminNow == 2
\* tokens issued in one behaviour of the administrator-only operations
MaxAdminTokens == 1

(* Program constants *)

\* RateLimiter(times=5, ...)
RateLimitTimes == 5

---------------------------------------------------------------------------
\* None for a string claim or column; an absent id or number is 0
None == "None"
\* a bearer string that is no token this server signed (malformed, or signed
\* with another key): it carries no claim the server reads
Malformed ==
    [sub |-> None, scope |-> None, user_id |-> 0, exp |-> 0, jti |-> 0, signed |-> FALSE]
\* the outcome of a jwt.decode that raised JWTError
JWTError ==
    [sub |-> None, scope |-> None, user_id |-> 0, exp |-> 0, jti |-> -1, signed |-> FALSE]

UserIds == {1, 2}
Usernames == {"alice", "bob", "mallory"}
Passwords == {"pw1", "pw2"}
Secrets == {"S1", "S2"}

VARIABLES
    now,        \* the clock, in ticks
    users,      \* the principal store: id -> record
    tokens,     \* every token issued so far; tokens[i].jti = i
    origin,     \* history: how tokens[i] was issued
    blocklist,  \* the revocation store: jti -> tick at which the key expires, 0 = no key
    limiter,    \* the rate-limit store: (caller, route) -> [count, until]
    window,     \* history: what the caller saw of each route's current window
    loggedOut,  \* history: jtis whose logout returned 200
    resp,       \* the response of the last request, if it came at this tick
    utcoffset,  \* the offset of the server's local time zone from UTC, in seconds
    redis_client, \* app.state.redis_client: None, or the client and whether
                \* its server can be reached
    requests,   \* the requests the workers are in the middle of
    executed    \* history: the caller for which the body of an
                \* administrator-only operation ran last

vars == <<now, users, tokens, origin, blocklist, limiter, window, loggedOut,
          resp, utcoffset, redis_client, requests, executed>>

\* the environment of the handlers, which none of them changes
env == <<utcoffset, redis_client>>

---------------------------------------------------------------------------
(* Clock *)

\* timegm(datetime.utcnow().utctimetuple()): the current second, as jose
\* computes it for the exp claim and for its check
Second(t) == t \div TicksPerSecond

\* int(datetime.utcnow().timestamp()): timestamp() reads the naive UTC time
\* as a time of the server's local zone, so the result is the current
\* second less the zone's offset from UTC
now_timestamp == Second(now) - utcoffset

---------------------------------------------------------------------------
(* Passwords *)

\* pwd_context.hash: the digest stands for the plaintext it was made from
get_password_hash(password) == <<"bcrypt", password>>

verify_password(plain_password, hashed_password) ==
    get_password_hash(plain_password) = hashed_password

---------------------------------------------------------------------------
(* HTTP outcomes: what the caller can observe of a rejection or a success *)

HTTPException(status_code, detail, bearer) ==
    [status |-> status_code, detail |-> detail, bearer |-> bearer, user |-> 0]

Resolved(user_id) ==
    [status |-> 200, detail |-> "", bearer |-> FALSE, user |-> user_id]

\* credentials_exception of get_current_user
credentials_exception ==
    HTTPException(401, "Could not validate credentials", TRUE)

\* the rejection of a 2fa_required token by get_current_user
scope_exception ==
    HTTPException(401, "Token valid only for 2FA verification step. Full authentication required.", TRUE)

inactive_exception == HTTPException(400, "Inactive user", FALSE)

\* credentials_exception of get_current_user_for_2fa
credentials_exception_2fa ==
    HTTPException(401, "Could not validate credentials for 2FA", TRUE)

\* the answer to a request whose handler or dependency raised anything but
\* an HTTPException
internal_server_error == HTTPException(500, "Internal Server Error", FALSE)

---------------------------------------------------------------------------
(* Tokens *)

\* create_access_token giving every token the same identifier
create_access_token_same_jti(data, expires_delta) ==
    LET expire == IF expires_delta # 0
                  THEN Second(now) + expires_delta
                  ELSE Second(now) + AccessTokenExpireSeconds
    IN  [sub |-> data.sub, scope |-> data.scope, user_id |-> data.user_id,
         exp |-> expire, jti |-> 1, signed |-> TRUE]

\* create_access_token: exp is the current second plus the lifetime (the
\* default lifetime when none, 0, is given), jti is a fresh identifier
\* (uuid4), here the next unused number
create_access_token(data, expires_delta) ==
    LET expire == IF expires_delta # 0
                  THEN Second(now) + expires_delta
                  ELSE Second(now) + AccessTokenExpireSeconds
    IN  [sub |-> data.sub, scope |-> data.scope, user_id |-> data.user_id,
         exp |-> expire, jti |-> Len(tokens) + 1, signed |-> TRUE]

\* jwt.decode that never verifies the expiry
jwt_decode_no_exp(token, verify_exp) ==
    IF ~token.signed THEN JWTError ELSE token

\* jwt.decode: a string this server did not sign raises JWTError, and so
\* does (ExpiredSignatureError is a JWTError) a token with exp < now when
\* expiry is verified; a token is still valid during the second exp itself
jwt_decode(token, verify_exp) ==
    IF ~token.signed THEN JWTError
    ELSE IF verify_exp /\ token.exp < Second(now) THEN JWTError
    ELSE token

\* what a client can put in the Authorization header
Bearers == {tokens[i] : i \in 1..Len(tokens)} \cup {Malformed}

---------------------------------------------------------------------------
(* Revocation store *)

\* the states of app.state.redis_client besides None: the client with its
\* server reachable, and the client with every call raising ConnectionError
\* or TimeoutError
Connected == "connected"
Unreachable == "unreachable"

\* redis EXISTS blocked_jti:<jti>: the key lives up to and including the
\* tick it was set to expire at
redis_exists(jti) == blocklist[jti] > 0 /\ now <= blocklist[jti]

\* add_token_to_blocklist: SETEX with ttl = exp - now_timestamp in whole
\* seconds, and nothing at all when ttl <= 0
\* a revoke that prolongs the entry it finds instead of setting it anew
add_token_to_blocklist_prolonging(jti, expires_at_timestamp) ==
    LET ttl == expires_at_timestamp - now_timestamp IN
    IF ttl > 0
    THEN [blocklist EXCEPT ![jti] =
            IF @ > 0 THEN @ + ttl * TicksPerSecond
            ELSE now + ttl * TicksPerSecond]
    ELSE blocklist

add_token_to_blocklist(jti, expires_at_timestamp) ==
    LET ttl == expires_at_timestamp - now_timestamp IN
    IF ttl > 0
    THEN [blocklist EXCEPT ![jti] = now + ttl * TicksPerSecond]
    ELSE blocklist

---------------------------------------------------------------------------
(* Principal store *)

\* a lookup that ignores the username and returns the first user
find_first_user(username) ==
    LET found == {u \in UserIds : users[u].exists} IN
    IF found = {} THEN 0 ELSE CHOOSE u \in found : \A v \in found : u <= v

\* select(User).where(User.username == username) ... .first()
find_by_username(username) ==
    LET found == {u \in UserIds : users[u].exists /\ users[u].username = username} IN
    IF found = {} THEN 0 ELSE CHOOSE u \in found : TRUE

\* db.get(User, user_id)
db_get(user_id) ==
    IF user_id \in UserIds /\ users[user_id].exists THEN user_id ELSE 0

---------------------------------------------------------------------------
(* resolveCaller *)

\* get_current_user without its scope check
get_current_user_any_scope(token) ==
    LET payload == jwt_decode(token, TRUE) IN
    IF redis_client = None THEN internal_server_error
    ELSE IF payload = JWTError THEN credentials_exception
    ELSE IF payload.sub = None \/ payload.jti = 0 THEN credentials_exception
    ELSE IF redis_client = Unreachable THEN internal_server_error
    ELSE IF redis_exists(payload.jti) THEN credentials_exception
    ELSE LET user == find_by_username(payload.sub) IN
         IF user = 0 THEN credentials_exception ELSE Resolved(user)

\* get_current_user taking a store it cannot reach for an empty blocklist
get_current_user_fail_open(token) ==
    LET payload == jwt_decode(token, TRUE) IN
    IF redis_client = None THEN internal_server_error
    ELSE IF payload = JWTError THEN credentials_exception
    ELSE IF payload.sub = None \/ payload.jti = 0 THEN credentials_exception
    ELSE IF redis_client = Connected /\ redis_exists(payload.jti)
         THEN credentials_exception
    ELSE IF payload.scope = "2fa_required" THEN scope_exception
    ELSE LET user == find_by_username(payload.sub) IN
         IF user = 0 THEN credentials_exception ELSE Resolved(user)

\* get_current_user: its dependency get_redis_client raises RuntimeError when
\* the application holds no client, and an error of the store's call is
\* neither a JWTError nor an HTTPException, so it leaves the function as it
\* is
get_current_user(token) ==
    LET payload == jwt_decode(token, TRUE) IN
    IF redis_client = None THEN internal_server_error
    ELSE IF payload = JWTError THEN credentials_exception
    ELSE IF payload.sub = None \/ payload.jti = 0 THEN credentials_exception
    ELSE IF redis_client = Unreachable THEN internal_server_error
    ELSE IF redis_exists(payload.jti) THEN credentials_exception
    ELSE IF payload.scope = "2fa_required" THEN scope_exception
    ELSE LET user == find_by_username(payload.sub) IN
         IF user = 0 THEN credentials_exception ELSE Resolved(user)

\* get_current_active_user without its is_active check
get_current_active_user_unchecked(token) == get_current_user(token)

get_current_active_user(token) ==
    LET current_user == get_current_user(token) IN
    IF current_user.status # 200 THEN current_user
    ELSE IF ~users[current_user.user].is_active THEN inactive_exception
    ELSE current_user

\* get_current_user_for_2fa without the comparison of the stored username
\* with the subject
get_current_user_for_2fa_any_subject(token) ==
    LET payload == jwt_decode(token, TRUE) IN
    IF redis_client = None THEN internal_server_error
    ELSE IF payload = JWTError THEN credentials_exception_2fa
    ELSE IF payload.sub = None \/ payload.scope # "2fa_required"
            \/ payload.user_id = 0 \/ payload.jti = 0
         THEN credentials_exception_2fa
    ELSE IF redis_client = Unreachable THEN internal_server_error
    ELSE IF redis_exists(payload.jti) THEN credentials_exception_2fa
    ELSE LET user == db_get(payload.user_id) IN
         IF user = 0 THEN credentials_exception_2fa ELSE Resolved(user)

\* get_current_user_for_2fa refusing a restricted token that has already
\* completed a second factor
get_current_user_for_2fa_single_use(token) ==
    LET payload == jwt_decode(token, TRUE) IN
    IF redis_client = None THEN internal_server_error
    ELSE IF payload = JWTError THEN credentials_exception_2fa
    ELSE IF payload.sub = None \/ payload.scope # "2fa_required"
            \/ payload.user_id = 0 \/ payload.jti = 0
         THEN credentials_exception_2fa
    ELSE IF redis_client = Unreachable THEN internal_server_error
    ELSE IF redis_exists(payload.jti) THEN credentials_exception_2fa
    ELSE IF \E i \in 1..Len(origin) :
                origin[i].by = "verify_2fa" /\ origin[i].parent = payload.jti
         THEN credentials_exception_2fa
    ELSE LET user == db_get(payload.user_id) IN
         IF user = 0 \/ users[user].username # payload.sub
         THEN credentials_exception_2fa
         ELSE Resolved(user)

get_current_user_for_2fa(token) ==
    LET payload == jwt_decode(token, TRUE) IN
    IF redis_client = None THEN internal_server_error
    ELSE IF payload = JWTError THEN credentials_exception_2fa
    ELSE IF payload.sub = None \/ payload.scope # "2fa_required"
            \/ payload.user_id = 0 \/ payload.jti = 0
         THEN credentials_exception_2fa
    ELSE IF redis_client = Unreachable THEN internal_server_error
    ELSE IF redis_exists(payload.jti) THEN credentials_exception_2fa
    ELSE LET user == db_get(payload.user_id) IN
         IF user = 0 \/ users[user].username # payload.sub
         THEN credentials_exception_2fa
         ELSE Resolved(user)

\* authenticate_user: the user's id, or 0 for None
authenticate_user(username, password) ==
    LET user == find_by_username(username) IN
    IF user = 0 THEN 0
    ELSE IF ~verify_password(password, users[user].hashed_password) THEN 0
    ELSE user

---------------------------------------------------------------------------
(* Second factor *)

\* pyotp.TOTP(secret).at(t): the code of the time step t falls in; a code
\* stands for the secret and the step it was computed from
totp_at(secret, t) ==
    [secret |-> secret, counter |-> Second(t) \div TotpStepSeconds]

\* pyotp.TOTP(secret).verify(code, valid_window=1): the code of the current
\* time step, of the one before and of the one after
totp_verify_valid_window_1(secret, code) ==
    /\ code.secret = secret
    /\ code.counter - Second(now) \div TotpStepSeconds \in {-1, 0, 1}

\* pyotp.TOTP(secret).verify(code), valid_window left at its default 0: the
\* code of the current time step and no other
totp_verify(secret, code) == code = totp_at(secret, now)

\* the secrets of the principals that enrolled a second factor
Enrolled ==
    {users[u].two_factor_secret :
        u \in {v \in UserIds : users[v].two_factor_secret # None}}

\* the codes a client may submit: those of an enrolled secret for the steps
\* around the current one, and the current code of any other secret
Codes ==
    {[secret |-> s, counter |-> Second(now) \div TotpStepSeconds + d] :
        s \in Enrolled, d \in {-1, 0, 1}}
    \cup {[secret |-> s, counter |-> Second(now) \div TotpStepSeconds] :
            s \in Secrets}

\* the codes of an authenticator that holds an enrolled secret and whose
\* clock is right or off by one time step
DriftedCodes == {code \in Codes : code.secret \in Enrolled}

---------------------------------------------------------------------------
(* Rate limiter: Depends(RateLimiter(times, seconds)), one counter per      *)
(* caller and route, kept in the store with an expiry                      *)

\* the caller whose counters the model keeps
Callers == {"10.0.0.1"}
\* stands for the callers that stay within their budget on every route:
\* the limiter admits them, and the model keeps no counter for them
Elsewhere == "elsewhere"
Endpoints == {"/login", "/verify-2fa"}
Keys == Callers \X Endpoints

\* a limit one call too generous
login_limit_loose == [times |-> RateLimitTimes + 1, seconds |-> RateLimitSeconds]

\* the limits of the two rate-limited routes
login_limit == [times |-> RateLimitTimes, seconds |-> RateLimitSeconds]
verify_2fa_limit == [times |-> RateLimitTimes, seconds |-> RateLimitSeconds]

\* the counter of key is set and has not expired
rate_live(key) == limiter[key].count > 0 /\ now <= limiter[key].until

\* whether the call is within budget
rate_allow(key, limit) ==
    IF key[1] \notin Callers THEN TRUE
    ELSE ~rate_live(key) \/ limiter[key].count + 1 <= limit.times

\* the store after the call: the first call of a window sets the counter to
\* 1 with the window as its expiry, an admitted call increments it, a
\* rejected call leaves it alone
rate_count(key, limit) ==
    IF key[1] \notin Callers THEN limiter
    ELSE IF ~rate_live(key)
    THEN [limiter EXCEPT ![key] =
            [count |-> 1, until |-> now + limit.seconds * TicksPerSecond]]
    ELSE IF limiter[key].count + 1 <= limit.times
    THEN [limiter EXCEPT ![key].count = @ + 1]
    ELSE limiter

rate_limited == HTTPException(429, "Too Many Requests", FALSE)

\* history: the window of key as its caller observes it. A call later than
\* seconds after the window's first call opens a new window.
Observe(key, limit, admitted) ==
    IF key[1] \notin Callers THEN window ELSE
    LET w == window[key]
        fresh == w.start < 0 \/ now > w.start + limit.seconds * TicksPerSecond
    IN  [window EXCEPT ![key] =
            IF fresh
            THEN [start |-> now,
                  admitted |-> IF admitted THEN 1 ELSE 0,
                  rejected |-> ~admitted,
                  refused_first |-> ~admitted]
            ELSE [w EXCEPT !.admitted = IF admitted THEN @ + 1 ELSE @,
                           !.rejected = @ \/ ~admitted]]

---------------------------------------------------------------------------
(* Responses *)

Response(op, username, jti, out, access_token, is_2fa_required) ==
    [op |-> op, username |-> username, jti |-> jti,
     status |-> out.status, detail |-> out.detail, bearer |-> out.bearer,
     user |-> out.user,
     access_token |-> access_token, is_2fa_required |-> is_2fa_required]

NoResponse == Response("none", None, 0, Resolved(0), 0, FALSE)

incorrect_credentials ==
    HTTPException(401, "Incorrect username or password", TRUE)

two_fa_not_enabled ==
    HTTPException(400, "2FA not enabled or user not found.", FALSE)

invalid_two_fa_code == HTTPException(400, "Invalid 2FA code.", TRUE)

\* history: how a token came to be issued
Origin(by, user, code_ok, parent) ==
    [by |-> by, user |-> user,
     two_factor |-> users[user].is_two_factor_enabled,
     code_ok |-> code_ok, parent |-> parent]

---------------------------------------------------------------------------
(* POST /login *)

\* login issuing the full token whatever the second-factor flag is
login_token_no_step_up(user) ==
    create_access_token(
        [sub |-> users[user].username, scope |-> None, user_id |-> 0],
        AccessTokenExpireSeconds)

\* the token login issues for an authenticated user
login_token(user) ==
    IF users[user].is_two_factor_enabled
    THEN create_access_token(
            [sub |-> users[user].username, scope |-> "2fa_required", user_id |-> user],
            TwoFaTokenExpireSeconds)
    ELSE create_access_token(
            [sub |-> users[user].username, scope |-> None, user_id |-> 0],
            AccessTokenExpireSeconds)

\* the body login returns with the token
login_body(user, access_token) ==
    IF users[user].is_two_factor_enabled
    THEN [status |-> 200, detail |-> "", bearer |-> FALSE, user |-> user]
    ELSE [status |-> 200, detail |-> "", bearer |-> FALSE, user |-> 0]

\* a credential check that tells the unknown username from the wrong password
login_failure_leaky(username, password) ==
    IF find_by_username(username) = 0
    THEN HTTPException(404, "User not found", FALSE)
    ELSE IF authenticate_user(username, password) = 0
    THEN incorrect_credentials
    ELSE Resolved(authenticate_user(username, password))

\* the credential check of login: the 401 it raises, or the authenticated
\* user
login_failure(username, password) ==
    IF authenticate_user(username, password) = 0
    THEN incorrect_credentials
    ELSE Resolved(authenticate_user(username, password))

login_for_access_token(caller, username, password) ==
    LET key == <<caller, "/login">>
        admitted == rate_allow(key, login_limit)
        user == authenticate_user(username, password)
    IN
    /\ window' = Observe(key, login_limit, admitted)
    /\ limiter' = rate_count(key, login_limit)
    /\ IF ~admitted
       THEN /\ resp' = Response("login", username, 0, rate_limited, 0, FALSE)
            /\ UNCHANGED <<tokens, origin>>
       ELSE IF login_failure(username, password).status # 200
       THEN /\ resp' = Response("login", username, 0,
                                login_failure(username, password), 0, FALSE)
            /\ UNCHANGED <<tokens, origin>>
       ELSE LET access_token == login_token(user) IN
            /\ Len(tokens) < Cardinality(DOMAIN blocklist)
            /\ tokens' = Append(tokens, access_token)
            /\ origin' = Append(origin, Origin("login", user, FALSE, 0))
            /\ resp' = Response("login", username, 0,
                                login_body(user, access_token), access_token.jti,
                                users[user].is_two_factor_enabled)
    /\ UNCHANGED <<now, users, blocklist, loggedOut, env, requests, executed>>

---------------------------------------------------------------------------
(* POST /verify-2fa *)

\* the checks of verify_2fa_login looking at the secret and not at the flag
verify_2fa_check_secret_only(current_user, code) ==
    LET user == db_get(current_user) IN
    IF user = 0 \/ users[user].two_factor_secret = None
    THEN two_fa_not_enabled
    ELSE IF ~totp_verify(users[user].two_factor_secret, code)
    THEN invalid_two_fa_code
    ELSE Resolved(user)

\* the checks of verify_2fa_login without the verification of the code
verify_2fa_check_any_code(current_user, code) ==
    LET user == db_get(current_user) IN
    IF user = 0 \/ ~users[user].is_two_factor_enabled
       \/ users[user].two_factor_secret = None
    THEN two_fa_not_enabled
    ELSE Resolved(user)

\* the checks of verify_2fa_login on the user the restricted token resolved
\* to: status 200 when a token is to be issued
verify_2fa_check(current_user, code) ==
    LET user == db_get(current_user) IN
    IF user = 0 \/ ~users[user].is_two_factor_enabled
       \/ users[user].two_factor_secret = None
    THEN two_fa_not_enabled
    ELSE IF ~totp_verify(users[user].two_factor_secret, code)
    THEN invalid_two_fa_code
    ELSE Resolved(user)

\* the token verify_2fa_login issues
verify_2fa_token(user) ==
    create_access_token(
        [sub |-> users[user].username, scope |-> None, user_id |-> 0],
        AccessTokenExpireSeconds)

verify_2fa_login(caller, token, code) ==
    LET key == <<caller, "/verify-2fa">>
        admitted == rate_allow(key, verify_2fa_limit)
        current_user == get_current_user_for_2fa(token)
    IN
    /\ window' = Observe(key, verify_2fa_limit, admitted)
    /\ limiter' = rate_count(key, verify_2fa_limit)
    /\ IF ~admitted
       THEN /\ resp' = Response("verify_2fa", None, token.jti, rate_limited, 0, FALSE)
            /\ UNCHANGED <<tokens, origin>>
       ELSE IF current_user.status # 200
       THEN /\ resp' = Response("verify_2fa", None, token.jti, current_user, 0, FALSE)
            /\ UNCHANGED <<tokens, origin>>
       ELSE IF verify_2fa_check(current_user.user, code).status # 200
       THEN /\ resp' = Response("verify_2fa", None, token.jti,
                                verify_2fa_check(current_user.user, code), 0, FALSE)
            /\ UNCHANGED <<tokens, origin>>
       ELSE LET user == current_user.user
                access_token == verify_2fa_token(user)
            IN
            /\ Len(tokens) < Cardinality(DOMAIN blocklist)
            /\ tokens' = Append(tokens, access_token)
            /\ origin' = Append(origin,
                    Origin("verify_2fa", user,
                           code = totp_at(users[user].two_factor_secret, now),
                           token.jti))
            /\ resp' = Response("verify_2fa", None, token.jti,
                                Resolved(0), access_token.jti, FALSE)
    /\ UNCHANGED <<now, users, blocklist, loggedOut, env, requests, executed>>

---------------------------------------------------------------------------
(* GET /me: a protected endpoint, which answers with the resolved caller *)

read_users_me(token) ==
    /\ resp' = Response("me", None, token.jti, get_current_active_user(token), 0, FALSE)
    /\ UNCHANGED <<now, users, tokens, origin, blocklist, limiter, window, loggedOut,
                   env, requests, executed>>

---------------------------------------------------------------------------
(* PUT /users/{user_id}: account management, which changes the principal    *)
(* records the authentication core reads                                    *)

\* UserUpdate: the field the update sets, and the new username if it sets
\* that
UserUpdate(field, username) == [field |-> field, username |-> username]

\* the changes of the second-factor enrollment an update may ask for
UserUpdates ==
    {UserUpdate("is_two_factor_enabled", None),
     UserUpdate("two_factor_secret", None)}

\* the changes of what resolveCaller reads of a principal: the active flag
\* switched off, and a new username
PrincipalUpdates ==
    {UserUpdate("is_active", None)}
    \cup {UserUpdate("username", n) : n \in Usernames}

\* usernames are unique: the store refuses the username of another row
username_taken(user_id, user_update) ==
    /\ user_update.field = "username"
    /\ \E u \in UserIds \ {user_id} :
        users[u].exists /\ users[u].username = user_update.username

\* update_user: the record with the fields of the update applied
update_user(user_id, user_update) ==
    [users EXCEPT ![user_id] =
        IF user_update.field = "is_two_factor_enabled"
        THEN [@ EXCEPT !.is_two_factor_enabled = FALSE]
        ELSE IF user_update.field = "two_factor_secret"
        THEN [@ EXCEPT !.two_factor_secret = None]
        ELSE IF user_update.field = "is_active"
        THEN [@ EXCEPT !.is_active = FALSE]
        ELSE [@ EXCEPT !.username = user_update.username]]

not_authorized_to_update ==
    HTTPException(403, "Not authorized to update this user", FALSE)

user_not_found == HTTPException(404, "User not found", FALSE)

\* the answer of update_existing_user: a superuser updates anyone, another
\* principal its own record
update_existing_user_response(token, user_id) ==
    LET current_user == get_current_active_user(token) IN
    IF current_user.status # 200 THEN current_user
    ELSE IF ~users[current_user.user].is_superuser /\ current_user.user # user_id
    THEN not_authorized_to_update
    ELSE IF db_get(user_id) = 0 THEN user_not_found
    ELSE Resolved(user_id)

update_existing_user(token, user_id, user_update) ==
    LET checked == update_existing_user_response(token, user_id)
        out == IF checked.status = 200 /\ username_taken(user_id, user_update)
               THEN internal_server_error
               ELSE checked
    IN
    /\ resp' = Response("update_user", None, token.jti, out, 0, FALSE)
    /\ users' = IF out.status = 200 THEN update_user(user_id, user_update)
                ELSE users
    /\ UNCHANGED <<now, tokens, origin, blocklist, limiter, window, loggedOut,
                   env, requests, executed>>

---------------------------------------------------------------------------
(* The administrator-only operations: every handler begins with the same    *)
(* test of the resolved caller's is_superuser                               *)

\* the handlers that test is_superuser and then only read or write rules,
\* statistics and lists, none of which the authentication core reads
AdministratorOperations ==
    {"read_users", "get_user_summary", "create_rule", "update_rule",
     "delete_rule", "trigger_autofill", "get_system_stats", "system_status",
     "get_interfaces"}

administrator_required(op) ==
    HTTPException(403,
        IF op = "get_system_stats"
        THEN "Administrator privileges required for system stats"
        ELSE "Administrator privileges required",
        FALSE)

email_already_registered == HTTPException(400, "Email already registered", FALSE)

\* no administrator-only operation has run its body
NotExecuted == [user |-> 0, is_superuser |-> FALSE, is_active |-> FALSE]

\* the body of the handler runs for current_user
Executed(current_user) ==
    [user |-> current_user,
     is_superuser |-> users[current_user].is_superuser,
     is_active |-> users[current_user].is_active]

\* the head of a handler that lets every resolved caller through
administrator_guard_any_caller(op, token) == get_current_active_user(token)

\* the head of every administrator-only handler: the dependency
\* get_current_active_user, then the 403 for a caller that is no superuser
administrator_guard(op, token) ==
    LET current_user == get_current_active_user(token) IN
    IF current_user.status # 200 THEN current_user
    ELSE IF ~users[current_user.user].is_superuser
    THEN administrator_required(op)
    ELSE current_user

administrator_only(op, token) ==
    LET out == administrator_guard(op, token) IN
    /\ resp' = Response(op, None, token.jti, out, 0, FALSE)
    /\ executed' = IF out.status = 200 THEN Executed(out.user)
                   ELSE executed
    /\ UNCHANGED <<now, users, tokens, origin, blocklist, limiter, window,
                   loggedOut, env, requests>>

\* delete_user: the row is gone
delete_user(user_id) == [users EXCEPT ![user_id].exists = FALSE]

\* DELETE /users/{user_id}
delete_existing_user(token, user_id) ==
    LET guard == administrator_guard("delete_existing_user", token)
        out == IF guard.status # 200 THEN guard
               ELSE IF db_get(user_id) = 0 THEN user_not_found
               ELSE guard
    IN
    /\ resp' = Response("delete_existing_user", None, token.jti, out, 0, FALSE)
    /\ executed' = IF guard.status = 200
                   THEN Executed(guard.user)
                   ELSE executed
    /\ users' = IF out.status = 200 THEN delete_user(user_id) ELSE users
    /\ UNCHANGED <<now, tokens, origin, blocklist, limiter, window,
                   loggedOut, env, requests>>

\* the ids no row has
FreeIds == {u \in UserIds : ~users[u].exists}

\* create_user: a new row for an active principal without administrator
\* rights and without a second factor
create_user(username, password) ==
    LET user_id == CHOOSE u \in FreeIds : TRUE IN
    [users EXCEPT ![user_id] =
        [exists |-> TRUE, username |-> username,
         hashed_password |-> get_password_hash(password),
         is_active |-> TRUE, is_superuser |-> FALSE,
         is_two_factor_enabled |-> FALSE, two_factor_secret |-> None]]

\* POST /users/: an address is registered once, and so is a username; the
\* address of a principal stands with its username here
create_new_user(token, username, password) ==
    LET guard == administrator_guard("create_new_user", token)
        out == IF guard.status # 200 THEN guard
               ELSE IF find_by_username(username) # 0
               THEN email_already_registered
               ELSE guard
    IN
    /\ out.status = 200 => FreeIds # {}
    /\ resp' = Response("create_new_user", None, token.jti, out, 0, FALSE)
    /\ executed' = IF guard.status = 200
                   THEN Executed(guard.user)
                   ELSE executed
    /\ users' = IF out.status = 200 THEN create_user(username, password)
                ELSE users
    /\ UNCHANGED <<now, tokens, origin, blocklist, limiter, window,
                   loggedOut, env, requests>>

---------------------------------------------------------------------------
(* POST /logout *)

logged_out == [status |-> 200, detail |-> "Successfully logged out",
               bearer |-> FALSE, user |-> 0]

logged_out_invalid == [status |-> 200, detail |-> "Logout successful (token was invalid)",
                       bearer |-> FALSE, user |-> 0]

\* the body of logout, once get_current_active_user has let the request in:
\* the blocklist it leaves
\* the write of logout revoking every token issued to the token's subject
logout_blocklist_every_token(token) ==
    LET payload == jwt_decode(token, FALSE) IN
    IF payload = JWTError THEN blocklist
    ELSE [j \in DOMAIN blocklist |->
            IF j \in 1..Len(tokens) /\ tokens[j].sub = payload.sub
                                   /\ tokens[j].exp # 0
            THEN add_token_to_blocklist(j, tokens[j].exp)[j]
            ELSE blocklist[j]]

logout_blocklist(token) ==
    LET payload == jwt_decode(token, FALSE) IN
    IF payload = JWTError THEN blocklist
    ELSE IF payload.jti # 0 /\ payload.exp # 0
    THEN add_token_to_blocklist(payload.jti, payload.exp)
    ELSE blocklist

\* the response of logout: the rejection of its dependency, or a success
logout_response(token) ==
    LET current_user == get_current_active_user(token) IN
    IF current_user.status # 200 THEN current_user
    ELSE IF jwt_decode(token, FALSE) = JWTError THEN logged_out_invalid
    ELSE logged_out

logout(token) ==
    LET out == logout_response(token) IN
    /\ resp' = Response("logout", None, token.jti, out, 0, FALSE)
    /\ IF out.status = 200
       THEN /\ blocklist' = logout_blocklist(token)
            /\ loggedOut' = loggedOut \cup {token.jti}
       ELSE UNCHANGED <<blocklist, loggedOut>>
    /\ UNCHANGED <<now, users, tokens, origin, limiter, window, env, requests, executed>>

---------------------------------------------------------------------------
(* Requests in progress: a handler gives way to other requests wherever it  *)
(* awaits, which for GET /me and POST /logout is at the calls of the store  *)
(* and of the database. The principal records do not change while these     *)
(* requests run, so a request is followed from one call of the store to    *)
(* the next.                                                                *)

\* the workers that handle requests side by side
Workers == {"w1", "w2"}

\* a worker with no request in hand
Idle == [op |-> "idle", step |-> "idle", token |-> Malformed,
         out |-> Resolved(0), after |-> FALSE, store |-> Connected]

\* a request as the worker receives it; after (history) tells whether a
\* logout of the same token had returned by then, store (history) will tell
\* the state of the store when the dependency ran
Request(op, token) ==
    [op |-> op, step |-> "received", token |-> token, out |-> Resolved(0),
     after |-> token.jti \in loggedOut, store |-> Connected]

receive(w, op, token) ==
    /\ requests[w].step = "idle"
    /\ requests' = [requests EXCEPT ![w] = Request(op, token)]
    /\ UNCHANGED <<now, users, tokens, origin, blocklist, limiter, window,
                   loggedOut, resp, env, executed>>

\* Depends(get_current_active_user): a rejection ends the request, and so
\* does the principal for GET /me, whose handler only returns it
resolve_caller(w) ==
    LET r == requests[w]
        current_user == get_current_active_user(r.token)
    IN
    /\ r.step = "received"
    /\ requests' = [requests EXCEPT ![w] =
            [r EXCEPT !.out = current_user,
                      !.store = redis_client,
                      !.step = IF r.op = "logout" /\ current_user.status = 200
                               THEN "body" ELSE "respond"]]
    /\ UNCHANGED <<now, users, tokens, origin, blocklist, limiter, window,
                   loggedOut, resp, env, executed>>

logged_out_error ==
    [status |-> 200, detail |-> "Logout processed with an internal finalization error",
     bearer |-> FALSE, user |-> 0]

\* whether the body of logout calls the store: add_token_to_blocklist does
\* when the TTL it computes is positive
logout_calls_store(token) ==
    LET payload == jwt_decode(token, FALSE) IN
    /\ payload # JWTError
    /\ payload.jti # 0 /\ payload.exp # 0
    /\ payload.exp - now_timestamp > 0

\* the body of logout: the decode, the write to the blocklist, and the
\* message; an error of the store falls to except Exception
logout_body(w) ==
    LET r == requests[w]
        failed == logout_calls_store(r.token) /\ redis_client # Connected
    IN
    /\ r.step = "body"
    /\ blocklist' = IF failed THEN blocklist ELSE logout_blocklist(r.token)
    /\ requests' = [requests EXCEPT ![w] =
            [r EXCEPT !.step = "respond",
                      !.out = IF failed THEN logged_out_error
                              ELSE IF jwt_decode(r.token, FALSE) = JWTError
                              THEN logged_out_invalid
                              ELSE logged_out]]
    /\ UNCHANGED <<now, users, tokens, origin, limiter, window, loggedOut, resp, env, executed>>

\* the response reaches the caller
respond(w) ==
    LET r == requests[w] IN
    /\ r.step = "respond"
    /\ resp' = Response(r.op, None, r.token.jti, r.out, 0, FALSE)
    /\ loggedOut' = IF r.op = "logout" /\ r.out = logged_out
                    THEN loggedOut \cup {r.token.jti} ELSE loggedOut
    /\ requests' = [requests EXCEPT ![w] = Idle]
    /\ UNCHANGED <<now, users, tokens, origin, blocklist, limiter, window, env, executed>>

\* the client goes away: the request is cancelled where it awaits
disconnect(w) ==
    /\ requests[w].step \notin {"idle", "respond"}
    /\ requests' = [requests EXCEPT ![w] = Idle]
    /\ UNCHANGED <<now, users, tokens, origin, blocklist, limiter, window,
                   loggedOut, resp, env, executed>>

\* the store becomes unreachable, and reachable again
redis_fail ==
    /\ redis_client = Connected
    /\ redis_client' = Unreachable
    /\ UNCHANGED <<now, users, tokens, origin, blocklist, limiter, window,
                   loggedOut, resp, utcoffset, requests, executed>>

redis_recover ==
    /\ redis_client = Unreachable
    /\ redis_client' = Connected
    /\ UNCHANGED <<now, users, tokens, origin, blocklist, limiter, window,
                   loggedOut, resp, utcoffset, requests, executed>>

---------------------------------------------------------------------------
(* The clock *)

\* the store drops a key once its expiry has passed; the history of a
\* window ends with the window
expire_keys(t) ==
    /\ blocklist' = [j \in DOMAIN blocklist |->
                        IF blocklist[j] < t THEN 0 ELSE blocklist[j]]
    /\ limiter' = [k \in Keys |->
                        IF limiter[k].until < t
                        THEN [count |-> 0, until |-> 0] ELSE limiter[k]]
    /\ window' = [k \in Keys |->
                        IF window[k].start >= 0
                           /\ window[k].start + RateLimitSeconds * TicksPerSecond < t
                        THEN [window[k] EXCEPT !.start = -1, !.admitted = 0,
                                               !.rejected = FALSE]
                        ELSE window[k]]

\* time passes, up to the tick last; resp is the response returned at the
\* current tick, so it is forgotten
Tick(last) ==
    /\ now < last
    /\ now' = now + 1
    /\ expire_keys(now + 1)
    /\ resp' = NoResponse
    /\ UNCHANGED <<users, tokens, origin, loggedOut, env, requests, executed>>

---------------------------------------------------------------------------
(* The system *)

\* a principal as the store holds it
User(username, password, superuser, active, two_factor, secret) ==
    [exists |-> TRUE, username |-> username,
     hashed_password |-> get_password_hash(password),
     is_active |-> active, is_superuser |-> superuser,
     is_two_factor_enabled |-> two_factor,
     two_factor_secret |-> IF two_factor THEN secret ELSE None]

\* the application has just started: no token issued, the stores empty, no
\* request in progress
\* no token issued yet, nothing in the store; the behaviour issues at most
\* n tokens, and the blocklist has a place for the jti of each
Stores(n) ==
    /\ now = 0
    /\ tokens = <<>>
    /\ origin = <<>>
    /\ blocklist = [j \in 1..n |-> 0]
    /\ limiter = [k \in Keys |-> [count |-> 0, until |-> 0]]
    /\ window = [k \in Keys |->
                   [start |-> -1, admitted |-> 0, rejected |-> FALSE,
                    refused_first |-> FALSE]]
    /\ loggedOut = {}
    /\ resp = NoResponse
    /\ requests = [w \in Workers |-> Idle]
    /\ executed = NotExecuted

InitStores == Stores(MaxTokens)

\* alice without and bob with a second factor, both active
TwoActiveUsers ==
    [u \in UserIds |->
        IF u = 1 THEN User("alice", "pw1", TRUE, TRUE, FALSE, "S1")
        ELSE User("bob", "pw2", FALSE, TRUE, TRUE, "S2")]

Init ==
    /\ InitStores
    \* each principal active or not; one of the two has a second factor
    /\ \E a1, a2, f1 \in BOOLEAN :
         users = [u \in UserIds |->
                    IF u = 1 THEN User("alice", "pw1", TRUE, a1, f1, "S1")
                    ELSE User("bob", "pw2", FALSE, a2, ~f1, "S2")]
    \* the server's zone is UTC and its store is up
    /\ utcoffset = 0
    /\ redis_client = Connected

Next ==
    \/ \E u \in Usernames, p \in Passwords :
         login_for_access_token(Elsewhere, u, p)
    \/ \E t \in Bearers, code \in Codes :
         verify_2fa_login(Elsewhere, t, code)
    \/ \E t \in Bearers : read_users_me(t)
    \/ \E t \in Bearers : logout(t)
    \/ Tick(MaxNow)

\* The authentication core, its requests coming from callers within budget
Spec == Init /\ [][Next]_vars

\* one principal without and one with a second factor, both active
InitRate ==
    /\ Init
    /\ \A u \in UserIds : users[u].is_active
    /\ ~users[1].is_two_factor_enabled
    /\ users[2].is_two_factor_enabled

NextRate ==
    \/ \E c \in Callers, u \in Usernames, p \in Passwords :
         login_for_access_token(c, u, p)
    \/ \E c \in Callers, t \in Bearers, code \in Codes :
         verify_2fa_login(c, t, code)
    \/ Tick(MaxRateNow)

\* The rate-limited routes as one caller drives them
SpecRate == InitRate /\ [][NextRate]_vars

\* alice without and bob with a second factor, both active; the application
\* has started with or without its store client
InitWorkers ==
    /\ InitStores
    /\ users = TwoActiveUsers
    /\ utcoffset = 0
    /\ redis_client \in {Connected, None}

NextWorkers ==
    \/ \E p \in Passwords :
         /\ Len(tokens) < MaxWorkTokens
         /\ login_for_access_token(Elsewhere, "alice", p)
    \/ \E w \in Workers, op \in {"me", "logout"}, i \in 1..Len(tokens) :
         receive(w, op, tokens[i])
    \/ \E w \in Workers : resolve_caller(w)
    \/ \E w \in Workers : logout_body(w)
    \/ \E w \in Workers : respond(w)
    \/ \E w \in Workers : disconnect(w)
    \/ redis_fail
    \/ redis_recover
    \/ Tick(MaxWorkNow)

\* Workers handling login, GET /me and POST /logout side by side, the store
\* failing and recovering
SpecWorkers == InitWorkers /\ [][NextWorkers]_vars

\* the local time zones a server may run in: UTC, one to the west, one to
\* the east
UtcOffsets == {-UtcOffsetSeconds, 0, UtcOffsetSeconds}

InitZone ==
    /\ InitStores
    /\ users = TwoActiveUsers
    /\ utcoffset \in UtcOffsets
    /\ redis_client = Connected

NextZone ==
    \/ \E u \in Usernames, p \in Passwords :
         login_for_access_token(Elsewhere, u, p)
    \/ \E t \in Bearers : read_users_me(t)
    \/ \E t \in Bearers : logout(t)
    \/ Tick(MaxZoneNow)

\* Login, GET /me and POST /logout on a server in any time zone
SpecZone == InitZone /\ [][NextZone]_vars

InitStepUp ==
    /\ Stores(MaxStepUpTokens)
    /\ users = TwoActiveUsers
    /\ utcoffset = 0
    /\ redis_client = Connected

NextStepUp ==
    \/ \E u \in Usernames, p \in Passwords :
         login_for_access_token(Elsewhere, u, p)
    \/ \E t \in Bearers, code \in Codes :
         verify_2fa_login(Elsewhere, t, code)
    \/ Tick(MaxStepUpNow)

\* The two login steps, the second of them repeated with one restricted
\* token
SpecStepUp == InitStepUp /\ [][NextStepUp]_vars

InitTotp ==
    /\ InitStores
    /\ users = TwoActiveUsers
    /\ utcoffset = 0
    /\ redis_client = Connected

NextTotp ==
    \/ \E u \in Usernames, p \in Passwords :
         login_for_access_token(Elsewhere, u, p)
    \/ \E t \in Bearers, code \in DriftedCodes :
         verify_2fa_login(Elsewhere, t, code)
    \/ Tick(MaxTotpNow)

\* The two login steps with an authenticator whose clock may be one time
\* step off
SpecTotp == InitTotp /\ [][NextTotp]_vars

InitAdmin ==
    /\ Stores(MaxAdminTokens)
    \* alice is an administrator; bob is not, is active or not, and has a
    \* second factor or not
    /\ \E a2, f2 \in BOOLEAN :
         users = [u \in UserIds |->
                    IF u = 1 THEN User("alice", "pw1", TRUE, TRUE, FALSE, "S1")
                    ELSE User("bob", "pw2", FALSE, a2, f2, "S2")]
    /\ utcoffset = 0
    /\ redis_client = Connected

NextAdmin ==
    \/ \E u \in Usernames, p \in Passwords :
         login_for_access_token(Elsewhere, u, p)
    \/ \E op \in AdministratorOperations, t \in Bearers :
         administrator_only(op, t)
    \/ \E t \in Bearers, u \in UserIds \cup {3} :
         delete_existing_user(t, u)
    \/ \E t \in Bearers, u \in Usernames :
         create_new_user(t, u, "pw1")
    \/ Tick(MaxAdminNow)

\* Login and the administrator-only operations
SpecAdmin == InitAdmin /\ [][NextAdmin]_vars

InitPrincipals ==
    /\ InitStores
    \* both principals active; bob has a second factor or not
    /\ \E f2 \in BOOLEAN :
         users = [u \in UserIds |->
                    IF u = 1 THEN User("alice", "pw1", TRUE, TRUE, FALSE, "S1")
                    ELSE User("bob", "pw2", FALSE, TRUE, f2, "S2")]
    /\ utcoffset = 0
    /\ redis_client = Connected

\* the principal has not logged in with its password yet
FirstLogin(user) == \A i \in 1..Len(origin) : origin[i].user # user

\* a principal logs in once: the tokens of a behaviour are those of
\* different principals, and what the second step issues
NextPrincipals ==
    \/ \E u \in Usernames, p \in Passwords :
         /\ authenticate_user(u, p) = 0 \/ FirstLogin(authenticate_user(u, p))
         /\ login_for_access_token(Elsewhere, u, p)
    \/ \E t \in Bearers, code \in Codes :
         verify_2fa_login(Elsewhere, t, code)
    \/ \E t \in Bearers : read_users_me(t)
    \/ \E t \in Bearers, u \in UserIds, change \in PrincipalUpdates :
         update_existing_user(t, u, change)
    \/ \E t \in Bearers, u \in UserIds :
         delete_existing_user(t, u)
    \/ Tick(MaxPrincipalsNow)

\* Login and the protected endpoints while principals are deactivated,
\* renamed and deleted
SpecPrincipals == InitPrincipals /\ [][NextPrincipals]_vars

InitAccounts ==
    /\ InitStores
    /\ users = TwoActiveUsers
    /\ utcoffset = 0
    /\ redis_client = Connected

NextAccounts ==
    \/ \E u \in Usernames, p \in Passwords :
         login_for_access_token(Elsewhere, u, p)
    \/ \E t \in Bearers, code \in Codes :
         verify_2fa_login(Elsewhere, t, code)
    \/ \E t \in Bearers, u \in UserIds \cup {3}, change \in UserUpdates :
         update_existing_user(t, u, change)
    \/ Tick(MaxAccountsNow)

\* The two login steps while principals' second-factor enrollment is
\* changed through account management
SpecAccounts == InitAccounts /\ [][NextAccounts]_vars

\* the payloads the signing key may have been used on: any subject, any
\* scope, any principal id (3 is the id of no principal), with or without a
\* jti; an absent claim is None or 0
GivenTokens ==
    {[sub |-> sub, scope |-> scope, user_id |-> user_id,
      exp |-> TwoFaTokenExpireSeconds, jti |-> jti, signed |-> TRUE] :
        sub \in {None, "alice", "bob"},
        scope \in {None, "2fa_required", "admin"},
        user_id \in {0, 1, 2, 3},
        jti \in {0, 1}}

\* the principals as in Init, and one signed token of any content in a
\* client's hands
InitGiven ==
    /\ now = 0
    /\ \E a1, a2, f1 \in BOOLEAN :
         users = [u \in UserIds |->
                    IF u = 1 THEN User("alice", "pw1", TRUE, a1, f1, "S1")
                    ELSE User("bob", "pw2", FALSE, a2, ~f1, "S2")]
    /\ \E t \in GivenTokens : tokens = <<t>>
    /\ origin = <<[by |-> "given", user |-> 0, two_factor |-> FALSE,
                   code_ok |-> FALSE, parent |-> 0]>>
    /\ blocklist = [j \in 1..MaxTokens |-> 0]
    /\ limiter = [k \in Keys |-> [count |-> 0, until |-> 0]]
    /\ window = [k \in Keys |->
                   [start |-> -1, admitted |-> 0, rejected |-> FALSE,
                    refused_first |-> FALSE]]
    /\ loggedOut = {}
    /\ resp = NoResponse
    /\ requests = [w \in Workers |-> Idle]
    /\ executed = NotExecuted
    /\ utcoffset = 0
    /\ redis_client = Connected

NextGiven ==
    \/ \E t \in Bearers, code \in Codes :
         verify_2fa_login(Elsewhere, t, code)
    \/ Tick(MaxGivenNow)

\* POST /verify-2fa applied to signed tokens of any content
SpecGiven == InitGiven /\ [][NextGiven]_vars

---------------------------------------------------------------------------
(* Properties *)

TokenIds == 1..Len(tokens)

\* the token is what resolveCaller accepts but for the state of its
\* principal: signed, not expired, not revoked, fully authenticated
Live(i) ==
    /\ tokens[i].exp >= Second(now)
    /\ ~redis_exists(i)
    /\ tokens[i].scope = None

\* C1: a token whose scope is 2fa_required is never accepted by
\* resolveCaller: get_current_user, get_current_active_user and the protected
\* endpoints built on them (GET /me, POST /logout) answer 401 and return no
\* principal, whatever the blocklist and the principal's flags are.
C1_RestrictedTokenNeverResolves ==
    \A i \in TokenIds :
        tokens[i].scope = "2fa_required" =>
            /\ get_current_user(tokens[i]).status = 401
            /\ get_current_user(tokens[i]).user = 0
            /\ get_current_active_user(tokens[i]).status = 401
            /\ get_current_active_user(tokens[i]).user = 0
            /\ logout_response(tokens[i]).status = 401
            /\ (resp.op \in {"me", "logout"} /\ resp.jti = i
                    => resp.status = 401 /\ resp.user = 0)

\* a restricted token that is neither expired nor revoked, of an active
\* principal, was presented to GET /me and rejected for its scope
C1_Witness ==
    /\ resp.op = "me"
    /\ resp.jti \in TokenIds
    /\ tokens[resp.jti].scope = "2fa_required"
    /\ tokens[resp.jti].exp >= Second(now)
    /\ ~redis_exists(resp.jti)
    /\ users[tokens[resp.jti].user_id].is_active
    /\ resp.status = 401
    /\ resp.detail = scope_exception.detail

\* C2: for a principal whose second factor is enabled, login issues only a
\* restricted token (scope 2fa_required, the principal's id embedded, the
\* response flagged is_2fa_required); a token without that scope is issued
\* for such a principal only by verify_2fa_login, and only when the submitted
\* code was the expected one.
C2_StepUpOnly ==
    /\ \A i \in TokenIds :
        /\ (origin[i].by = "login" /\ origin[i].two_factor)
                => /\ tokens[i].scope = "2fa_required"
                   /\ tokens[i].user_id = origin[i].user
        /\ (tokens[i].scope # "2fa_required" /\ origin[i].two_factor)
                => /\ origin[i].by = "verify_2fa"
                   /\ origin[i].code_ok
    /\ (resp.op = "login" /\ resp.status = 200
            /\ origin[resp.access_token].two_factor)
        => /\ resp.is_2fa_required
           /\ resp.user = origin[resp.access_token].user

\* a principal with second factor logged in and completed the second step
C2_Witness ==
    \E i, j \in TokenIds :
        /\ origin[i].by = "login" /\ origin[i].two_factor
        /\ origin[j].by = "verify_2fa" /\ origin[j].parent = i
        /\ tokens[j].scope = None

\* C3: once logout(token) has returned for a token resolveCaller accepted,
\* every later resolveCaller(token) answers 401 and returns no principal.
C3_LoggedOutTokenRejected ==
    \A i \in loggedOut :
        /\ get_current_active_user(tokens[i]).status = 401
        /\ get_current_active_user(tokens[i]).user = 0
        /\ (resp.op = "me" /\ resp.jti = i => resp.status = 401)

\* C4: logout never surfaces an error: whatever bearer it is called with
\* (a token already logged out, an expired one, a malformed one), and
\* however often, it answers with a success.
C4_LogoutAlwaysSucceeds ==
    /\ \A t \in Bearers : logout_response(t).status = 200
    /\ (resp.op = "logout" => resp.status = 200)

\* the token's expiry timestamp has passed
Expired(i) == tokens[i].exp < Second(now)

\* C5 as stated: a token whose expiry has passed is rejected by resolveCaller
\* with a rejection of its own kind, which the caller can tell from the one a
\* malformed token gets (InvalidToken) and from the one a revoked token or an
\* unknown subject gets (Unauthorized).
C5_ExpiredRejectionDistinct ==
    \A i \in TokenIds :
        Expired(i) =>
            /\ get_current_active_user(tokens[i]).status # 200
            /\ get_current_active_user(tokens[i]) # get_current_active_user(Malformed)
            /\ get_current_active_user(tokens[i]) # credentials_exception

\* C5 as amended: a token whose expiry timestamp has passed (exp < the
\* current second) is always rejected by resolveCaller, revoked or not, and
\* the rejection is the 401 "Could not validate credentials" that a malformed
\* or a revoked token gets as well.
C5_ExpiredTokenRejected ==
    /\ \A i \in TokenIds :
        Expired(i) =>
            /\ get_current_user(tokens[i]) = credentials_exception
            /\ get_current_active_user(tokens[i]) = credentials_exception
            /\ get_current_active_user(tokens[i]) = get_current_active_user(Malformed)
    /\ (resp.op = "me" /\ resp.jti \in TokenIds /\ Expired(resp.jti))
        => /\ resp.status = 401
           /\ resp.detail = credentials_exception.detail
           /\ resp.user = 0

\* a fully authenticated token of an active principal, never logged out, was
\* presented to GET /me after its expiry and rejected
C5_Witness ==
    /\ resp.op = "me"
    /\ resp.jti \in TokenIds
    /\ Expired(resp.jti)
    /\ tokens[resp.jti].scope = None
    /\ resp.jti \notin loggedOut
    /\ users[origin[resp.jti].user].is_active
    /\ resp.status = 401

\* the last request was a login that returned a fully authenticated token
LoginReturnedFullToken ==
    /\ resp.op = "login"
    /\ resp.status = 200
    /\ ~resp.is_2fa_required

\* C6 as stated: for every principal with second factor disabled and every
\* (username, password) login accepts, resolveCaller applied at once to the
\* returned token returns that principal, whatever its other flags are.
C6_LoginThenResolve ==
    LoginReturnedFullToken =>
        /\ users[origin[resp.access_token].user].username = resp.username
        /\ get_current_active_user(tokens[resp.access_token])
                = Resolved(origin[resp.access_token].user)

\* C6 as amended: for every active principal with second factor disabled and
\* every (username, password) login accepts, resolveCaller applied at once
\* to the returned token returns that principal; for an inactive principal
\* login issues the token all the same and resolveCaller rejects it with 400
\* "Inactive user".
C6_LoginThenResolveActive ==
    LoginReturnedFullToken =>
        LET user == origin[resp.access_token].user IN
        /\ users[user].username = resp.username
        /\ ~origin[resp.access_token].two_factor
        /\ get_current_user(tokens[resp.access_token]) = Resolved(user)
        /\ get_current_active_user(tokens[resp.access_token])
                = IF users[user].is_active THEN Resolved(user)
                  ELSE inactive_exception

\* bob, who is active and has no second factor, has just logged in
C6_Witness ==
    /\ LoginReturnedFullToken
    /\ origin[resp.access_token].user = 2
    /\ users[2].is_active

\* the last request completed the second factor
SecondFactorCompleted == resp.op = "verify_2fa" /\ resp.status = 200

\* the code a restricted token's principal is expected to submit now
ExpectedCode(user) == totp_at(users[user].two_factor_secret, now)

\* the part of C7 about rejections: with a restricted token that
\* get_current_user_for_2fa accepts and an incorrect code the answer is 400
\* "Invalid 2FA code."; a request that is rejected issues no token and
\* returns no principal; every token verify_2fa_login issued was issued for
\* the expected code.
C7_IncorrectCodeRejected ==
    /\ \A t \in Bearers, code \in Codes :
        LET current_user == get_current_user_for_2fa(t) IN
        (/\ current_user.status = 200
         /\ users[current_user.user].is_two_factor_enabled
         /\ users[current_user.user].two_factor_secret # None
         /\ code # ExpectedCode(current_user.user))
            => verify_2fa_check(current_user.user, code) = invalid_two_fa_code
    /\ (resp.op = "verify_2fa" /\ resp.status # 200)
            => resp.access_token = 0 /\ resp.user = 0
    /\ \A i \in TokenIds : origin[i].by = "verify_2fa" => origin[i].code_ok

\* C7 as stated: a restricted token that completeSecondFactor accepts yields,
\* with the correct code, a token that resolveCaller accepts and resolves to
\* the restricted token's principal; with an incorrect code the request is
\* rejected with 400, no token is issued and no principal returned.
C7_SecondFactorThenResolve ==
    /\ SecondFactorCompleted =>
        /\ origin[resp.access_token].user = tokens[resp.jti].user_id
        /\ get_current_active_user(tokens[resp.access_token])
                = Resolved(tokens[resp.jti].user_id)
    /\ C7_IncorrectCodeRejected

\* C7 as amended: as stated when the principal is active; for an inactive
\* principal completeSecondFactor issues the token all the same and
\* resolveCaller rejects it with 400 "Inactive user".
C7_SecondFactorThenResolveActive ==
    /\ SecondFactorCompleted =>
        LET user == tokens[resp.jti].user_id IN
        /\ origin[resp.access_token].user = user
        /\ tokens[resp.access_token].sub = tokens[resp.jti].sub
        /\ get_current_user(tokens[resp.access_token]) = Resolved(user)
        /\ get_current_active_user(tokens[resp.access_token])
                = IF users[user].is_active THEN Resolved(user)
                  ELSE inactive_exception
    /\ C7_IncorrectCodeRejected

\* bob, who is active, has just completed the second factor
C7_Witness ==
    /\ SecondFactorCompleted
    /\ tokens[resp.jti].user_id = 2
    /\ users[2].is_active

\* what the caller observes of a response: everything but the echo of the
\* request
Observable(r) == [r EXCEPT !.username = None, !.jti = 0]

\* C8: login answers an unknown username exactly as it answers an existing
\* username with a wrong password: the same status, detail and headers, and
\* no token.
C8_NoAccountEnumeration ==
    /\ \A u1, u2 \in Usernames, p1, p2 \in Passwords :
        (/\ find_by_username(u1) = 0
         /\ find_by_username(u2) # 0
         /\ ~verify_password(p2, users[find_by_username(u2)].hashed_password))
            => /\ login_failure(u1, p1) = login_failure(u2, p2)
               /\ login_failure(u1, p1).status = 401
    /\ (resp.op = "login" /\ resp.status \notin {200, 429})
            => Observable(resp)
                 = Response("login", None, 0, incorrect_credentials, 0, FALSE)

\* a login with an unknown username has just been refused
C8_Witness ==
    /\ resp.op = "login"
    /\ resp.status = 401
    /\ find_by_username(resp.username) = 0

LimitOf(key) == IF key[2] = "/login" THEN login_limit ELSE verify_2fa_limit

\* C10: POST /login and POST /verify-2fa admit at most RateLimitTimes = 5
\* calls of one caller within a window, counted whether or not the calls
\* authenticated; the next call in the window is rejected with 429 before
\* any credential check, so it issues no token and its answer does not
\* depend on the credentials; a call that comes once the window has elapsed
\* is admitted again.
C10_RateLimit ==
    /\ \A k \in Keys :
        /\ window[k].admitted <= RateLimitTimes
        /\ window[k].rejected => window[k].admitted = RateLimitTimes
        /\ ~window[k].refused_first
        /\ (window[k].start >= 0 /\ window[k].admitted = RateLimitTimes)
                => ~rate_allow(k, LimitOf(k))
        /\ window[k].start < 0 => rate_allow(k, LimitOf(k))
    /\ resp.status = 429
        => /\ resp.op \in {"login", "verify_2fa"}
           /\ Observable(resp) = Response(resp.op, None, 0, rate_limited, 0, FALSE)

\* the caller, who had logged in successfully before, has used up the window
\* of POST /login and has just had a login rejected
C10_Witness ==
    /\ resp.op = "login"
    /\ resp.status = 429
    /\ \E i \in TokenIds : origin[i].by = "login"
    /\ \E c \in Callers :
        /\ window[<<c, "/login">>].admitted = RateLimitTimes
        /\ window[<<c, "/login">>].rejected

\* the requests whose dependency get_current_active_user has run
Resolving(w) == requests[w].step \in {"body", "respond"}

\* the token passes the decode and the claim checks of get_current_user, so
\* that the blocklist is the next thing asked
ReachesBlocklist(t) ==
    /\ jwt_decode(t, TRUE) # JWTError
    /\ t.sub # None /\ t.jti # 0

\* C11 as stated: when the store is unreachable or unavailable while
\* resolveCaller runs, the request fails closed: no principal is returned,
\* the endpoint (here the body of logout) does not execute, and the caller
\* is answered Unauthorized (401).
C11_StoreFailureUnauthorized ==
    \A w \in Workers :
        (Resolving(w) /\ requests[w].store # Connected)
            => /\ requests[w].out.status = 401
               /\ requests[w].out.user = 0
               /\ requests[w].step = "respond"

\* C11 as amended: when the store is unreachable or unavailable while
\* resolveCaller runs, the request fails closed: no principal is returned,
\* the endpoint does not execute, and the revocation check is never skipped:
\* a token that reaches the check is answered 500 Internal Server Error, not
\* Unauthorized; a token rejected before the check keeps its 401.
C11_StoreFailureFailsClosed ==
    /\ \A w \in Workers :
        (Resolving(w) /\ requests[w].store # Connected)
            => /\ requests[w].out \in {internal_server_error, credentials_exception}
               /\ requests[w].out.user = 0
               /\ requests[w].step = "respond"
    /\ \A t \in Bearers :
        redis_client # Connected
            => /\ get_current_user(t).status # 200
               /\ get_current_active_user(t).status # 200
               /\ get_current_user_for_2fa(t).status # 200
               /\ ReachesBlocklist(t) =>
                    /\ get_current_user(t) = internal_server_error
                    /\ get_current_active_user(t) = internal_server_error

\* a token of alice, unexpired and never logged out, was presented to GET /me
\* while the store was unreachable, and the request is answered 500
C11_Witness ==
    \E w \in Workers :
        /\ requests[w].op = "me"
        /\ requests[w].step = "respond"
        /\ requests[w].store = Unreachable
        /\ requests[w].token.jti \in TokenIds
        /\ requests[w].token.exp >= Second(now)
        /\ requests[w].token.jti \notin loggedOut
        /\ blocklist[requests[w].token.jti] = 0
        /\ requests[w].out = internal_server_error

\* the token is one resolveCaller accepts when the store answers: signed,
\* unexpired, fully authenticated, not on the blocklist, of an active
\* principal
OtherwiseValid(t) ==
    /\ ReachesBlocklist(t)
    /\ t.scope = None
    /\ blocklist[t.jti] = 0
    /\ find_by_username(t.sub) # 0
    /\ users[find_by_username(t.sub)].is_active

\* C12: when the store fails while a caller with an otherwise valid token
\* logs out, the failure is swallowed: the logout request is answered with a
\* success (status 200), never with an error. Stated for an application
\* that holds a store client, whose server may be out of reach.
C12_LogoutSwallowsStoreFailure ==
    \A w \in Workers :
        (/\ requests[w].op = "logout"
         /\ requests[w].step = "respond"
         /\ requests[w].store # None
         /\ OtherwiseValid(requests[w].token))
            => requests[w].out.status = 200

\* C13: every entry of the blocklist is created with a time to live equal to
\* the token's expiry timestamp less the current time, so every entry that
\* exists belongs to a token whose expiry has not passed: an entry never
\* outlives the token it revokes.
C13_EntryNeverOutlivesToken ==
    /\ \A j \in TokenIds : redis_exists(j) => ~Expired(j)
    /\ (resp.op = "logout" /\ resp.status = 200 /\ redis_exists(resp.jti))
        => blocklist[resp.jti]
             = now + (tokens[resp.jti].exp - Second(now)) * TicksPerSecond

\* C14: with workers handling login, logout and resolveCaller side by side,
\* every resolveCaller(T) that starts after a logout(T) has returned rejects
\* T: it returns no principal, and the logout it guards does not run again.
\* Only a resolveCaller that overlapped the logout may return the principal.
C14_LogoutVisibleAfterReturn ==
    \A w \in Workers :
        (requests[w].after /\ Resolving(w))
            => /\ requests[w].step = "respond"
               /\ requests[w].out.status # 200
               /\ requests[w].out.user = 0

\* C15: every issuance gives the token an identifier no earlier token has,
\* so logout(T1) changes the acceptance of T1 only: for every other token
\* T2, another token of the same principal included, the blocklist entry of
\* T2 and the result of resolveCaller(T2) are the same before and after.
C15_LogoutRevokesOneToken ==
    /\ [](\A i, j \in TokenIds : i # j => tokens[i].jti # tokens[j].jti)
    /\ [][resp'.op = "logout" =>
            \A i \in TokenIds :
                tokens[i].jti # resp'.jti =>
                    /\ blocklist'[i] = blocklist[i]
                    /\ get_current_user(tokens[i])' = get_current_user(tokens[i])
                    /\ get_current_active_user(tokens[i])'
                            = get_current_active_user(tokens[i])]_vars

\* a principal holding two accepted tokens has just logged out with one of
\* them, and the other one is accepted still
C15_Witness ==
    /\ resp.op = "logout"
    /\ resp.status = 200
    /\ redis_exists(resp.jti)
    /\ \E i \in TokenIds :
        /\ i # resp.jti
        /\ origin[i].user = origin[resp.jti].user
        /\ get_current_active_user(tokens[i]) = Resolved(origin[i].user)

\* the token is signed but is not a restricted token of a principal: its
\* scope is not 2fa_required, or it lacks the principal id, the subject or
\* the jti, or its principal id and its subject do not denote one principal
NotRestricted(t) ==
    /\ t.signed
    /\ \/ t.scope # "2fa_required"
       \/ t.user_id = 0 \/ t.sub = None \/ t.jti = 0
       \/ db_get(t.user_id) = 0
       \/ users[t.user_id].username # t.sub

\* C16: completeSecondFactor rejects with 401, before it reads the submitted
\* code, every token that is not a restricted token: a fully authenticated
\* token, a token with another scope, a token without principal id, subject
\* or jti, and a token whose principal id and subject do not denote the same
\* principal. So a request that got as far as the code (400) or to a new
\* token (200) presented a restricted token, and a 401 carries no token.
C16_OnlyRestrictedTokenAccepted ==
    /\ \A t \in Bearers :
        NotRestricted(t)
            => get_current_user_for_2fa(t) = credentials_exception_2fa
    /\ (resp.op = "verify_2fa" /\ resp.status # 401)
        => /\ resp.jti \in TokenIds
           /\ tokens[resp.jti].jti = resp.jti
           /\ ~NotRestricted(tokens[resp.jti])
    /\ (resp.op = "verify_2fa" /\ resp.status = 401)
        => /\ resp.detail = credentials_exception_2fa.detail
           /\ resp.access_token = 0
           /\ resp.user = 0

\* an unexpired token with scope 2fa_required, whose principal id is that
\* of a principal with a second factor and whose subject is another
\* principal's name, has just been rejected by POST /verify-2fa
C16_Witness ==
    /\ resp.op = "verify_2fa"
    /\ resp.status = 401
    /\ resp.jti = 1
    /\ tokens[1].jti = 1
    /\ tokens[1].scope = "2fa_required"
    /\ tokens[1].exp >= Second(now)
    /\ tokens[1].user_id \in UserIds
    /\ users[tokens[1].user_id].is_two_factor_enabled
    /\ tokens[1].sub \notin {None, users[tokens[1].user_id].username}

\* C17: whenever add_token_to_blocklist skips the insertion because the
\* time to live it computed is <= 0, the token is already expired at that
\* moment: the decode of resolveCaller, which enforces the expiry, rejects
\* it at the same instant.
C17_SkippedMeansExpired ==
    (/\ resp.op = "logout"
     /\ resp.status = 200
     /\ resp.jti \in TokenIds
     /\ tokens[resp.jti].exp - now_timestamp <= 0)
        => /\ jwt_decode(tokens[resp.jti], TRUE) = JWTError
           /\ get_current_user(tokens[resp.jti]).status = 401

\* the principal has no second factor to complete: the flag is off, or no
\* secret is enrolled
NotEnrolled(user) ==
    \/ ~users[user].is_two_factor_enabled
    \/ users[user].two_factor_secret = None

\* C18: completeSecondFactor with a valid restricted token fails with 400
\* "2FA not enabled or user not found." and issues no token whenever, at the
\* time of the call, the principal has the second factor disabled or has no
\* secret enrolled, the second factor disabled after the token was issued
\* included; whatever the submitted code is.
C18_NotEnrolledIsBadRequest ==
    /\ \A t \in Bearers, code \in Codes :
        LET current_user == get_current_user_for_2fa(t) IN
        (current_user.status = 200 /\ NotEnrolled(current_user.user))
            => verify_2fa_check(current_user.user, code) = two_fa_not_enabled
    /\ (/\ resp.op = "verify_2fa"
        /\ resp.jti \in TokenIds
        /\ get_current_user_for_2fa(tokens[resp.jti]).status = 200
        /\ NotEnrolled(tokens[resp.jti].user_id))
        => /\ resp.status = 400
           /\ resp.detail = two_fa_not_enabled.detail
           /\ resp.access_token = 0
    /\ \A i \in TokenIds :
        origin[i].by = "verify_2fa" => origin[i].two_factor

\* a restricted token issued while its principal had the second factor
\* enabled was presented, unexpired, after the second factor had been
\* disabled, and rejected with 400
C18_Witness ==
    /\ resp.op = "verify_2fa"
    /\ resp.jti \in TokenIds
    /\ origin[resp.jti].by = "login"
    /\ origin[resp.jti].two_factor
    /\ get_current_user_for_2fa(tokens[resp.jti]).status = 200
    /\ ~users[tokens[resp.jti].user_id].is_two_factor_enabled
    /\ users[tokens[resp.jti].user_id].two_factor_secret # None
    /\ resp.status = 400
    /\ resp.detail = two_fa_not_enabled.detail

\* the step is the body of a logout request for the token numbered j
LogoutBodyOf(j) ==
    \E w \in Workers :
        /\ requests[w].op = "logout"
        /\ requests[w].step = "body"
        /\ requests[w].token.jti = j
        /\ requests'[w].step = "respond"

Revokes(w) ==
    /\ requests[w].op = "logout"
    /\ requests[w].step = "body"
    /\ requests'[w].step = "respond"
    /\ requests'[w].out = logged_out

\* C20: revoke is idempotent. A revoke of a token's jti and expiry leaves
\* every other entry alone and leaves one entry for the jti, whose end is
\* the current time plus the lifetime the token has left at this call,
\* whatever entry of the jti an earlier revoke, of a finished request or of
\* a concurrent one, has left in the store: after two revokes the store is
\* as after the later one alone. A revoke of a token with no lifetime left
\* changes nothing.
C20_RevokeIsIdempotent ==
    [][\A w \in Workers :
        Revokes(w) =>
            LET token == requests[w].token
                remaining == token.exp - now_timestamp
            IN
            /\ \A i \in DOMAIN blocklist :
                    i # token.jti => blocklist'[i] = blocklist[i]
            /\ blocklist'[token.jti] =
                    IF remaining > 0
                    THEN now + remaining * TicksPerSecond
                    ELSE blocklist[token.jti]]_vars

\* two concurrent logout requests with one token have both run their revoke,
\* the later of them at a later second than the login, and the store holds
\* the entry of the token
C20_Witness ==
    /\ \A w \in Workers :
        /\ requests[w].op = "logout"
        /\ requests[w].step = "respond"
        /\ requests[w].out = logged_out
    /\ requests["w1"].token = requests["w2"].token
    /\ redis_exists(requests["w1"].token.jti)
    /\ Second(now) > requests["w1"].token.exp - AccessTokenExpireSeconds

\* the tokens a completed second factor with the restricted token numbered
\* r has issued
IssuedWith(r) ==
    {i \in TokenIds : origin[i].by = "verify_2fa" /\ origin[i].parent = r}

\* C21: a successful completeSecondFactor does not consume its restricted
\* token. As long as the restricted token has not expired, presenting it
\* again with the code of the current time step passes every check of
\* verify_2fa_login, however many tokens it has obtained already; and every
\* successful completion appends one fully authenticated token, whose jti no
\* earlier token has and whose expiry is counted from the moment of that
\* completion.
C21_RestrictedTokenNotConsumed ==
    /\ [](\A r \in TokenIds :
            (/\ IssuedWith(r) # {}
             /\ tokens[r].exp >= Second(now))
            => LET current_user == get_current_user_for_2fa(tokens[r]) IN
               /\ current_user = Resolved(tokens[r].user_id)
               /\ verify_2fa_check(
                      current_user.user,
                      totp_at(users[current_user.user].two_factor_secret, now))
                    = Resolved(current_user.user))
    /\ [][(resp'.op = "verify_2fa" /\ resp'.status = 200) =>
            /\ Len(tokens') = Len(tokens) + 1
            /\ SubSeq(tokens', 1, Len(tokens)) = tokens
            /\ LET access_token == tokens'[Len(tokens')] IN
               /\ resp'.access_token = access_token.jti
               /\ \A i \in TokenIds : tokens[i].jti # access_token.jti
               /\ access_token.scope = None
               /\ access_token.sub = tokens[resp'.jti].sub
               /\ access_token.exp = Second(now) + AccessTokenExpireSeconds]_vars

\* one restricted token has completed the second factor twice, in two
\* different seconds, and holds two fully authenticated tokens of different
\* jti and different expiry
C21_Witness ==
    /\ resp.op = "verify_2fa"
    /\ resp.status = 200
    /\ \E i, j \in IssuedWith(resp.jti) :
        /\ tokens[i].jti # tokens[j].jti
        /\ tokens[i].exp # tokens[j].exp
        /\ tokens[i].scope = None /\ tokens[j].scope = None

\* the time step the server's clock is in
CurrentStep == Second(now) \div TotpStepSeconds

\* the request presents a restricted token that resolves to a principal
\* with an enrolled second factor: the code is what decides
ReachesCode(t) ==
    /\ get_current_user_for_2fa(t).status = 200
    /\ ~NotEnrolled(get_current_user_for_2fa(t).user)

\* C22 as stated: verify accepts the code of the current time step and of
\* the steps next to it, and rejects the code of every other step; so a
\* completeSecondFactor that got as far as the code succeeds exactly when
\* the code is the principal's code of a step at most one away.
C22_ToleranceOfOneStep ==
    [][\A t \in Bearers, code \in DriftedCodes :
        (verify_2fa_login(Elsewhere, t, code) /\ ReachesCode(t)) =>
            LET user == get_current_user_for_2fa(t).user IN
            resp'.status = 200 <=>
                /\ code.secret = users[user].two_factor_secret
                /\ code.counter - CurrentStep \in {-1, 0, 1}]_vars

\* C22, amended: verify accepts the code of the current time step and no
\* other, the codes of the steps next to it included; a
\* completeSecondFactor that got as far as the code succeeds exactly when
\* the code is the principal's code of the current step, and answers 400
\* "Invalid 2FA code." otherwise.
C22_OnlyCurrentStepAccepted ==
    /\ [](\A secret \in Enrolled, code \in Codes :
            totp_verify(secret, code) <=>
                (code.secret = secret /\ code.counter = CurrentStep))
    /\ [][\A t \in Bearers, code \in DriftedCodes :
            (verify_2fa_login(Elsewhere, t, code) /\ ReachesCode(t)) =>
                LET user == get_current_user_for_2fa(t).user IN
                /\ resp'.status = 200 <=>
                        /\ code.secret = users[user].two_factor_secret
                        /\ code.counter = CurrentStep
                /\ resp'.status # 200 =>
                        /\ resp'.status = 400
                        /\ resp'.detail = invalid_two_fa_code.detail
                        /\ resp'.access_token = 0]_vars

\* an authenticator one time step off: a code of the principal's own
\* secret, of a step next to the current one, was presented with a
\* restricted token that resolves, after the first time step had passed,
\* and was answered 400 "Invalid 2FA code."
C22_Witness ==
    /\ resp.op = "verify_2fa"
    /\ resp.jti \in TokenIds
    /\ ReachesCode(tokens[resp.jti])
    /\ Enrolled = {users[tokens[resp.jti].user_id].two_factor_secret}
    /\ CurrentStep >= 1
    /\ resp.status = 400
    /\ resp.detail = invalid_two_fa_code.detail

\* every operation the claim lists
AdministratorOnly ==
    AdministratorOperations \cup {"create_new_user", "delete_existing_user"}

\* the token the last request presented
Presented(r) == IF r.jti \in TokenIds THEN tokens[r.jti] ELSE Malformed

\* C23: the body of an administrator-only operation (create, list and
\* delete users, user summary; create, update and delete IDS rules;
\* autofill; system stats, system info, interfaces) runs only for a caller
\* that get_current_active_user returned and whose is_superuser is set.
\* Every other resolved caller gets 403, and a caller that did not resolve
\* gets the rejection of the resolution; in both cases nothing ran and no
\* principal record changed.
C23_AdministratorOnly ==
    /\ [](executed # NotExecuted =>
            executed.is_superuser /\ executed.is_active)
    /\ [][resp'.op \in AdministratorOnly =>
            LET current_user == get_current_active_user(Presented(resp')) IN
            /\ (current_user.status = 200
                /\ ~users[current_user.user].is_superuser)
                => /\ resp'.status = 403
                   /\ resp'.detail = administrator_required(resp'.op).detail
                   /\ executed' = executed
                   /\ users' = users
            /\ current_user.status # 200
                => /\ resp'.status = current_user.status
                   /\ resp'.detail = current_user.detail
                   /\ executed' = executed
                   /\ users' = users
            /\ (executed' # executed \/ users' # users)
                => /\ current_user.status = 200
                   /\ users[current_user.user].is_superuser
                   /\ executed' = Executed(current_user.user)]_vars

\* an active principal without administrator rights presented its accepted
\* token to an operation that deletes a principal, and was answered 403:
\* nothing has run, and the principal is still there
C23_Witness ==
    /\ resp.op = "delete_existing_user"
    /\ resp.status = 403
    /\ get_current_active_user(Presented(resp)).status = 200
    /\ ~users[get_current_active_user(Presented(resp)).user].is_superuser
    /\ executed = NotExecuted
    /\ \A u \in UserIds : users[u].exists

\* the principal tokens[i] was issued for is deactivated, deleted, or bears
\* another username than the token's subject
Changed(i) ==
    LET user == origin[i].user IN
    \/ ~users[user].exists
    \/ ~users[user].is_active
    \/ users[user].username # tokens[i].sub

\* C24 as stated: once the principal a token was issued for is deactivated,
\* deleted or renamed, get_current_active_user returns no principal for the
\* token.
C24_ChangedPrincipalNeverResolved ==
    \A i \in TokenIds :
        Changed(i) => get_current_active_user(tokens[i]).status # 200

\* C24, amended: once the principal a token was issued for is deactivated,
\* deleted or renamed, no resolution of the token returns that principal,
\* and no revocation entry is needed for it. A fully authenticated token
\* resolves to whichever existing, active principal bears the token's
\* subject as its username at the time of the request, and to none if
\* there is none; a restricted token resolves to the principal of its
\* user_id only, and only while that principal exists and bears the
\* token's subject. Login and the second step issue tokens for an inactive
\* principal all the same: such a token is never accepted.
C24_ChangedPrincipalNotReturned ==
    \A i \in TokenIds :
        LET out == get_current_active_user(tokens[i])
            restricted == get_current_user_for_2fa(tokens[i])
        IN
        /\ Changed(i) => ~(out.status = 200 /\ out.user = origin[i].user)
        /\ out.status = 200 =>
                /\ users[out.user].exists
                /\ users[out.user].is_active
                /\ users[out.user].username = tokens[i].sub
        /\ (/\ tokens[i].scope = None
            /\ tokens[i].exp >= Second(now)
            /\ ~redis_exists(i)
            /\ \E u \in UserIds :
                /\ users[u].exists /\ users[u].is_active
                /\ users[u].username = tokens[i].sub)
                => out.status = 200
        /\ restricted.status = 200 =>
                /\ restricted.user = origin[i].user
                /\ users[restricted.user].exists
                /\ users[restricted.user].username = tokens[i].sub

\* login has just issued a token for a principal that had been deactivated
\* before, and the token is not accepted; a token of another principal
\* that changed is not accepted either; the revocation store is empty
C24_Witness ==
    /\ resp.op = "login"
    /\ resp.status = 200
    /\ resp.access_token \in TokenIds
    /\ ~users[origin[resp.access_token].user].is_active
    /\ get_current_active_user(tokens[resp.access_token]).status # 200
    /\ \E i \in TokenIds :
        /\ i # resp.access_token
        /\ tokens[i].scope = None
        /\ Changed(i)
        /\ get_current_active_user(tokens[i]).status # 200
    /\ \A j \in DOMAIN blocklist : blocklist[j] = 0

\* C25: the revocation store holds entries of fully authenticated tokens
\* only. Logout writes its entry after get_current_active_user has accepted
\* the token, and that rejects a restricted token with 401; so no restricted
\* token is ever revoked, and the revocation check of
\* get_current_user_for_2fa never finds an entry for the token it is given.
C25_OnlyFullTokensRevoked ==
    /\ \A j \in DOMAIN blocklist :
        blocklist[j] > 0 =>
            /\ j \in TokenIds
            /\ tokens[j].scope # "2fa_required"
            /\ origin[j].by = "verify_2fa" \/ ~origin[j].two_factor
    /\ \A t \in Bearers :
        t.scope = "2fa_required" =>
            /\ ~redis_exists(t.jti)
            /\ get_current_active_user(t).status # 200
            /\ logout_response(t).status = 401
            /\ t.exp >= Second(now) => logout_response(t) = scope_exception
    /\ (resp.op = "logout" /\ Presented(resp).scope = "2fa_required") =>
            /\ resp.status = 401
            /\ resp.jti \notin loggedOut
            /\ blocklist[resp.jti] = 0

\* a restricted token, not yet expired, was presented to logout and
\* rejected with 401; the store has no entry for it, while it holds the
\* entry of a fully authenticated token that logged out
C25_Witness ==
    /\ resp.op = "logout"
    /\ resp.jti \in TokenIds
    /\ tokens[resp.jti].scope = "2fa_required"
    /\ tokens[resp.jti].exp >= Second(now)
    /\ resp.status = 401
    /\ blocklist[resp.jti] = 0
    /\ \E j \in TokenIds : redis_exists(j) /\ tokens[j].scope = None

====
